---- MODULE Spec2Model ----
(***************************************************************************)
(* A model of the 2D BSP builder and traversal of src/main.rs:             *)
(* Wall (new, intersection, splice, in_front, in_front_point),             *)
(* Map (from_file's wall construction, generate_tree, tree_create) and     *)
(* BSPTree (get_render_order, get_render_walls).                           *)
(*                                                                         *)
(* Numbers.  The program computes in f64.  The model computes in exact     *)
(* rationals <<n, d>> (d > 0, lowest terms); every input coordinate of the *)
(* model is a multiple of 1/64 or of 1/10 of small magnitude.  Rounding    *)
(* error of f64 is therefore outside the model.                            *)
(*                                                                         *)
(* Trees.  The Box<Option<BSPTree>> tree is kept as an arena `nodes`:      *)
(* node k is nodes[k], a child is a node index, 0 is None.  The recursion  *)
(* of tree_create is kept as the stack `work` of pending calls, one call   *)
(* per step, the `behind` call before the `front` call as in the struct    *)
(* literal of the source.                                                  *)
(*                                                                         *)
(* History.  Every Wall record carries a field `orig`, the 1-based index   *)
(* of the input wall it is (a fragment of).  No operation reads it.        *)
(***************************************************************************)
EXTENDS Integers, Sequences, FiniteSets, TLC

\* Largest number of walls a map holds in the model.
MaxWalls == 3

\* A tree built from n walls has at most 2^n - 1 nodes (each call keeps at
\* most n - 1 walls on each side), so this cap never binds on the program.
MaxNodes == 2^MaxWalls - 1

----------------------------------------------------------------------------
(* f64 arithmetic, exact *)

Abs(a) == IF a < 0 THEN -a ELSE a

RECURSIVE GCD(_, _)
GCD(a, b) == IF b = 0 THEN a ELSE GCD(b, a % b)

F64(n, d) ==
    LET s == IF d < 0 THEN -1 ELSE 1
        g == GCD(Abs(n), Abs(d))
    IN  <<(s * n) \div g, (s * d) \div g>>

Zero == <<0, 1>>
One == <<1, 1>>
Two == <<2, 1>>

Add(a, b) == F64(a[1] * b[2] + b[1] * a[2], a[2] * b[2])
Sub(a, b) == F64(a[1] * b[2] - b[1] * a[2], a[2] * b[2])
Mul(a, b) == F64(a[1] * b[1], a[2] * b[2])
Div(a, b) == F64(a[1] * b[2], a[2] * b[1])
Neg(a) == <<-a[1], a[2]>>
Lt(a, b) == a[1] * b[2] < b[1] * a[2]
Gt(a, b) == a[1] * b[2] > b[1] * a[2]

(* Vector2<f64> *)
Vector2(x, y) == [x |-> x, y |-> y]
VAdd(a, b) == Vector2(Add(a.x, b.x), Add(a.y, b.y))
VSub(a, b) == Vector2(Sub(a.x, b.x), Sub(a.y, b.y))
VDiv(a, k) == Vector2(Div(a.x, k), Div(a.y, k))
Dot(a, b) == Add(Mul(a.x, b.x), Mul(a.y, b.y))

(* Vector3<f64> and its cross product *)
Vector3(x, y, z) == [x |-> x, y |-> y, z |-> z]
VSub3(a, b) == Vector3(Sub(a.x, b.x), Sub(a.y, b.y), Sub(a.z, b.z))
Cross(a, b) ==
    Vector3(Sub(Mul(a.y, b.z), Mul(a.z, b.y)),
            Sub(Mul(a.z, b.x), Mul(a.x, b.z)),
            Sub(Mul(a.x, b.y), Mul(a.y, b.x)))

\* The epsilon of the parallel test of Wall::intersection, 0.001.
Epsilon == F64(1, 1000)

----------------------------------------------------------------------------
(* Wall *)

\* Wall::new: forward = up x (p2 - p1), its x and y.  No case is refused.
Wall_new(p1, p2) ==
    LET vec3_0 == Vector3(p1.x, p1.y, Zero)
        vec3_1 == Vector3(p2.x, p2.y, Zero)
        up == Vector3(Zero, Zero, One)
        forward == Cross(up, VSub3(vec3_1, vec3_0))
    IN  [p1 |-> p1, p2 |-> p2, forward |-> Vector2(forward.x, forward.y)]

None == <<>>
Some(v) == <<v>>

\* Wall::intersection with `t >= 0.0` for `t > 0.0`.
intersection_closed_at_0(self, plane) ==
    LET x1 == self.p1.x
        y1 == self.p1.y
        x2 == self.p2.x
        y2 == self.p2.y
        x3 == plane.p1.x
        y3 == plane.p1.y
        x4 == plane.p2.x
        y4 == plane.p2.y
        denominator == Sub(Mul(Sub(x1, x2), Sub(y3, y4)), Mul(Sub(y1, y2), Sub(x3, x4)))
    IN  IF Lt(denominator, Epsilon) /\ Gt(denominator, Neg(Epsilon))
        THEN None
        ELSE LET t == Div(Sub(Mul(Sub(x1, x3), Sub(y3, y4)), Mul(Sub(y1, y3), Sub(x3, x4))),
                          denominator)
             IN  IF ~Lt(t, Zero) /\ Lt(t, One)
                 THEN Some(Vector2(Add(x1, Mul(t, Sub(x2, x1))), Add(y1, Mul(t, Sub(y2, y1)))))
                 ELSE None

\* Wall::intersection: the point where segment `self` meets the infinite line
\* through `plane`, when the determinant is at least Epsilon in magnitude and
\* the parameter t along `self` is strictly inside (0, 1).  (u is computed by
\* the source and never read.)
intersection(self, plane) ==
    LET x1 == self.p1.x
        y1 == self.p1.y
        x2 == self.p2.x
        y2 == self.p2.y
        x3 == plane.p1.x
        y3 == plane.p1.y
        x4 == plane.p2.x
        y4 == plane.p2.y
        denominator == Sub(Mul(Sub(x1, x2), Sub(y3, y4)), Mul(Sub(y1, y2), Sub(x3, x4)))
    IN  IF Lt(denominator, Epsilon) /\ Gt(denominator, Neg(Epsilon))
        THEN None
        ELSE LET t == Div(Sub(Mul(Sub(x1, x3), Sub(y3, y4)), Mul(Sub(y1, y3), Sub(x3, x4))),
                          denominator)
             IN  IF Gt(t, Zero) /\ Lt(t, One)
                 THEN Some(Vector2(Add(x1, Mul(t, Sub(x2, x1))), Add(y1, Mul(t, Sub(y2, y1)))))
                 ELSE None

\* Wall::splice with the second piece starting at self.p1 instead of point.
splice_second_from_p1(self, point) ==
    << [p1 |-> self.p1, p2 |-> point, forward |-> self.forward, orig |-> self.orig],
       [p1 |-> self.p1, p2 |-> self.p2, forward |-> self.forward, orig |-> self.orig] >>

\* Wall::splice: (p1, point) and (point, p2), both with self.forward.
splice(self, point) ==
    << [p1 |-> self.p1, p2 |-> point, forward |-> self.forward, orig |-> self.orig],
       [p1 |-> point, p2 |-> self.p2, forward |-> self.forward, orig |-> self.orig] >>

\* Wall::in_front
in_front(self, wall) ==
    LET center == VDiv(VAdd(wall.p1, wall.p2), Two)
        diff == VSub(center, self.p1)
    IN  Gt(Dot(diff, self.forward), Zero)

\* Wall::in_front_point
in_front_point(self, point) ==
    LET diff == VSub(point, self.p1)
    IN  Gt(Dot(diff, self.forward), Zero)

----------------------------------------------------------------------------
(* Map::tree_create, one call *)

\* The body of `for wall in ..` of tree_create: both pieces of a wall the
\* slice plane's line cuts, the wall itself otherwise.
RECURSIVE splice_walls(_, _)
splice_walls(ws, slice_plane) ==
    IF ws = <<>>
    THEN <<>>
    ELSE LET wall == Head(ws)
             hit == intersection(wall, slice_plane)
             pieces == IF hit # None
                       THEN LET spliced == splice(wall, hit[1])
                            IN  <<spliced[1], spliced[2]>>
                       ELSE <<wall>>
         IN  pieces \o splice_walls(Tail(ws), slice_plane)

\* new_walls with the loop over `walls` instead of `walls[1..]`.
new_walls_from_0(walls) == splice_walls(walls, walls[1])

\* new_walls of tree_create: the loop over walls[1..].
new_walls(walls) == splice_walls(Tail(walls), walls[1])

\* front of tree_create
front_walls(nw, slice_plane) == SelectSeq(nw, LAMBDA w : in_front(slice_plane, w))

\* back of tree_create with the `else` dropped: every wall is pushed.
back_walls_all(nw, slice_plane) == nw

\* back of tree_create
back_walls(nw, slice_plane) == SelectSeq(nw, LAMBDA w : ~in_front(slice_plane, w))

----------------------------------------------------------------------------
(* BSPTree traversal over the arena *)

\* get_render_walls without the `!` of its test.
RECURSIVE get_render_walls_flipped(_, _, _)
get_render_walls_flipped(ns, node, camera_pos) ==
    IF node = 0
    THEN <<>>
    ELSE IF in_front_point(ns[node].segment, camera_pos)
         THEN get_render_walls_flipped(ns, ns[node].front, camera_pos)
              \o <<node>> \o get_render_walls_flipped(ns, ns[node].behind, camera_pos)
         ELSE get_render_walls_flipped(ns, ns[node].behind, camera_pos)
              \o <<node>> \o get_render_walls_flipped(ns, ns[node].front, camera_pos)

\* get_render_walls with the second recursive call of the else branch lost.
RECURSIVE get_render_walls_short(_, _, _)
get_render_walls_short(ns, node, camera_pos) ==
    IF node = 0
    THEN <<>>
    ELSE IF ~in_front_point(ns[node].segment, camera_pos)
         THEN get_render_walls_short(ns, ns[node].front, camera_pos)
              \o <<node>> \o get_render_walls_short(ns, ns[node].behind, camera_pos)
         ELSE get_render_walls_short(ns, ns[node].behind, camera_pos) \o <<node>>

\* BSPTree::get_render_walls: the nodes in the order their segments are pushed.
RECURSIVE get_render_walls(_, _, _)
get_render_walls(ns, node, camera_pos) ==
    IF node = 0
    THEN <<>>
    ELSE IF ~in_front_point(ns[node].segment, camera_pos)
         THEN get_render_walls(ns, ns[node].front, camera_pos)
              \o <<node>> \o get_render_walls(ns, ns[node].behind, camera_pos)
         ELSE get_render_walls(ns, ns[node].behind, camera_pos)
              \o <<node>> \o get_render_walls(ns, ns[node].front, camera_pos)

----------------------------------------------------------------------------
(* Inputs *)

\* The point (a/64, b/64).
V(a, b) == Vector2(F64(a, 64), F64(b, 64))

\* Endpoint pairs a map file can give a wall.
WallPool ==
    { <<V(-64, 0), V(64, 0)>>,       \* horizontal
      <<V(0, -64), V(0, 64)>>,       \* vertical, crosses it at the origin
      <<V(-64, -64), V(64, 64)>>,    \* diagonal through the origin
      <<V(64, -64), V(0, 64)>>,      \* meets the horizontal at (1/2, 0), the diagonal at (1/3, 1/3)
      <<V(0, 0), V(64, 0)>>,         \* collinear with the horizontal
      <<V(-64, -64), V(-64, 64)>>,   \* misses (0,0)-(1,0), crosses its line
      <<V(-1, 0), V(1, 0)>>,         \* short horizontal
      <<V(0, -1), V(0, 1)>>,         \* short vertical crossing it
      <<V(0, 0), V(0, 0)>> }         \* coincident endpoints

\* Viewer points: the one of main, one on the walls' lines, two more.
Cameras ==
    { Vector2(F64(-6, 10), F64(-5, 10)), V(0, 0), V(32, 32), V(-128, 96) }

----------------------------------------------------------------------------
(* State *)

VARIABLES
    pc,       \* "load": from_file is reading; "build": tree_create is running; "built": it returned
    walls,    \* Map.walls
    work,     \* the pending calls of tree_create, next call first
    nodes,    \* the BSPTree nodes made so far
    rendered, \* get_render_order was called
    camera,   \* its camera_pos
    order,    \* the nodes in the order visited
    out       \* the Vec<Wall> it returned

vars == <<pc, walls, work, nodes, rendered, camera, order, out>>

Init ==
    /\ pc = "load"
    /\ walls = <<>>
    /\ work = <<>>
    /\ nodes = <<>>
    /\ rendered = FALSE
    /\ camera = V(0, 0)
    /\ order = <<>>
    /\ out = <<>>

\* from_file, one `walls` line: out.walls.push(Wall::new(..)).
from_file_wall ==
    /\ pc = "load"
    /\ Len(walls) < MaxWalls
    /\ \E pq \in WallPool :
          walls' = Append(walls, Wall_new(pq[1], pq[2]) @@ [orig |-> Len(walls) + 1])
    /\ UNCHANGED <<pc, work, nodes, rendered, camera, order, out>>

\* Map::generate_tree: the outermost call of tree_create.
generate_tree ==
    /\ pc = "load"
    /\ pc' = "build"
    /\ work' = <<[walls |-> walls, parent |-> 0, side |-> "root"]>>
    /\ UNCHANGED <<walls, nodes, rendered, camera, order, out>>

\* The node list with `id` stored as the child the call was made for.
Link(ns, call, id) ==
    IF call.side = "front" THEN [ns EXCEPT ![call.parent].front = id]
    ELSE IF call.side = "behind" THEN [ns EXCEPT ![call.parent].behind = id]
    ELSE ns

\* Map::tree_create, one call.
tree_create ==
    /\ pc = "build"
    /\ work # <<>>
    /\ LET call == Head(work)
           ws == call.walls
           id == Len(nodes) + 1
       IN  IF Len(ws) = 0
           THEN /\ nodes' = nodes
                /\ work' = Tail(work)
           ELSE /\ Len(nodes) < MaxNodes
                /\ IF Len(ws) = 1
                   THEN /\ nodes' = Append(Link(nodes, call, id),
                                           [segment |-> ws[1], front |-> 0, behind |-> 0])
                        /\ work' = Tail(work)
                   ELSE LET slice_plane == ws[1]
                            nw == new_walls(ws)
                            front == front_walls(nw, slice_plane)
                            back == back_walls(nw, slice_plane)
                        IN  /\ nodes' = Append(Link(nodes, call, id),
                                               [segment |-> slice_plane, front |-> 0, behind |-> 0])
                            /\ work' = << [walls |-> back, parent |-> id, side |-> "behind"],
                                          [walls |-> front, parent |-> id, side |-> "front"] >>
                                       \o Tail(work)
    /\ pc' = IF work' = <<>> THEN "built" ELSE "build"
    /\ UNCHANGED <<walls, rendered, camera, order, out>>

\* BSPTree::get_render_order on the built tree (main unwraps it: a tree exists).
get_render_order ==
    /\ pc = "built"
    /\ nodes # <<>>
    /\ \E camera_pos \in Cameras :
          /\ camera' = camera_pos
          /\ order' = get_render_walls(nodes, 1, camera_pos)
    /\ out' = [i \in 1..Len(order') |-> nodes[order'[i]].segment]
    /\ rendered' = TRUE
    /\ UNCHANGED <<pc, walls, work, nodes>>

Next == from_file_wall \/ generate_tree \/ tree_create \/ get_render_order

Spec == Init /\ [][Next]_vars

----------------------------------------------------------------------------
(* Vocabulary of the properties *)

Nodes == 1..Len(nodes)
Inputs == 1..Len(walls)

\* The nodes of the subtree whose root is node k (none when k = 0).
RECURSIVE Subtree(_)
Subtree(k) ==
    IF k = 0 THEN {} ELSE {k} \cup Subtree(nodes[k].front) \cup Subtree(nodes[k].behind)

\* Twice the signed area of the triangle a, b, c: zero when c is on the line
\* through a and b, of opposite signs on its two sides.
Orient(a, b, c) ==
    Sub(Mul(Sub(b.x, a.x), Sub(c.y, a.y)), Mul(Sub(b.y, a.y), Sub(c.x, a.x)))

Sign(r) == IF r[1] > 0 THEN 1 ELSE IF r[1] < 0 THEN -1 ELSE 0

\* The endpoints of s lie strictly on opposite sides of the line through w.
Straddles(s, w) ==
    Sign(Orient(w.p1, w.p2, s.p1)) * Sign(Orient(w.p1, w.p2, s.p2)) = -1

\* a and b cross at a point interior to both.
CrossEachOther(a, b) == Straddles(a, b) /\ Straddles(b, a)

\* The determinant of Wall::intersection for a against b, from the two
\* direction vectors.
Det(a, b) ==
    LET da == VSub(a.p1, a.p2)
        db == VSub(b.p1, b.p2)
    IN  Sub(Mul(da.x, db.y), Mul(da.y, db.x))

\* dot(p - w.p1, w.forward): the side of w's line p is on, by w's stored normal.
SideOf(w, p) == Sign(Dot(VSub(p, w.p1), w.forward))

\* p lies on the closed segment w.
OnSegment(w, p) ==
    /\ Orient(w.p1, w.p2, p) = Zero
    /\ ~Lt(Dot(VSub(p, w.p1), VSub(w.p2, w.p1)), Zero)
    /\ ~Lt(Dot(VSub(p, w.p2), VSub(w.p1, w.p2)), Zero)

\* a and b have a point in common: they cross, or an end of one is on the other.
Meet(a, b) ==
    \/ CrossEachOther(a, b)
    \/ OnSegment(a, b.p1) \/ OnSegment(a, b.p2)
    \/ OnSegment(b, a.p1) \/ OnSegment(b, a.p2)

\* The segments of the nodes F, each used once, lead from p to q, the p2 of
\* each being the p1 of the next.
RECURSIVE Chain(_, _, _)
Chain(F, p, q) ==
    IF F = {}
    THEN p = q
    ELSE \E n \in F : nodes[n].segment.p1 = p /\ Chain(F \ {n}, nodes[n].segment.p2, q)

Fragments(i) == {n \in Nodes : nodes[n].segment.orig = i}

NonDegenerate == \A i \in Inputs : walls[i].p1 # walls[i].p2

\* The tree has one node per input wall, holding that wall as constructed.
NodesAreInputs ==
    /\ Len(nodes) = Len(walls)
    /\ \A i \in Inputs : Cardinality({n \in Nodes : nodes[n].segment = walls[i]}) = 1

Pos(n) == CHOOSE i \in 1..Len(order) : order[i] = n

Times(s, seq) == Cardinality({i \in 1..Len(seq) : seq[i] = s})

----------------------------------------------------------------------------
(* Properties *)

\* C1: the sequence get_render_order returns is as long as the tree has
\* nodes, and holds every node's segment exactly as often as the tree does
\* (once): none omitted, none emitted twice.
C1_RenderOrderComplete ==
    rendered =>
        /\ Len(out) = Len(nodes)
        /\ \A n \in Nodes :
              /\ Times(nodes[n].segment, out) = 1
              /\ Cardinality({m \in Nodes : nodes[m].segment = nodes[n].segment}) = 1

\* A render of a tree in which walls were split and both subtrees of the root exist.
C1_Witness ==
    /\ rendered
    /\ Len(nodes) > Len(walls)
    /\ nodes[1].front # 0
    /\ nodes[1].behind # 0

\* C2: when the build of non-degenerate inputs has returned, the fragments of
\* each input wall are there, lie on it, point its way, and chain end to end
\* from its p1 to its p2 with every fragment used once.
C2_FragmentsPartitionInput ==
    (pc = "built" /\ NonDegenerate) =>
        \A i \in Inputs :
            /\ Fragments(i) # {}
            /\ \A n \in Fragments(i) :
                  /\ OnSegment(walls[i], nodes[n].segment.p1)
                  /\ OnSegment(walls[i], nodes[n].segment.p2)
                  /\ Gt(Dot(VSub(nodes[n].segment.p2, nodes[n].segment.p1),
                            VSub(walls[i].p2, walls[i].p1)), Zero)
            /\ Chain(Fragments(i), walls[i].p1, walls[i].p2)

\* A finished build in which one input wall ended as three or more fragments.
C2_Witness ==
    /\ pc = "built"
    /\ NonDegenerate
    /\ \E i \in Inputs : Cardinality(Fragments(i)) >= 3
    /\ \E i \in Inputs : Cardinality(Fragments(i)) = 1

\* C3: every segment in a node's front subtree has both endpoints on the
\* non-negative side of the node's line, every segment in its back subtree
\* has both on the non-positive side.
C3_SubtreesOnTheirSide ==
    \A n \in Nodes :
        /\ \A m \in Subtree(nodes[n].front) :
              /\ SideOf(nodes[n].segment, nodes[m].segment.p1) >= 0
              /\ SideOf(nodes[n].segment, nodes[m].segment.p2) >= 0
        /\ \A m \in Subtree(nodes[n].behind) :
              /\ SideOf(nodes[n].segment, nodes[m].segment.p1) <= 0
              /\ SideOf(nodes[n].segment, nodes[m].segment.p2) <= 0

\* C4 as stated: inputs of which no two cross each other (here: no two have
\* so much as a point in common) give one node per input wall, unsplit.
C4_NoCrossingsGiveNNodes ==
    (pc = "built" /\ \A i, j \in Inputs : i # j => ~Meet(walls[i], walls[j]))
        => NodesAreInputs

\* C4 amended: inputs among which intersection reports no point, for any
\* ordered pair, give one node per input wall, unsplit.
C4_NoLineCrossingsGiveNNodes ==
    (pc = "built" /\ \A i, j \in Inputs : intersection(walls[i], walls[j]) = None)
        => NodesAreInputs

\* A finished build of three proper walls, one touching another's line with
\* an endpoint, among which intersection reports nothing.
C4_Witness ==
    /\ pc = "built"
    /\ Len(walls) = 3
    /\ NonDegenerate
    /\ \A i, j \in Inputs : intersection(walls[i], walls[j]) = None
    /\ \E i, j \in Inputs :
          /\ Orient(walls[j].p1, walls[j].p2, walls[i].p1) = Zero
          /\ Orient(walls[j].p1, walls[j].p2, walls[i].p2) # Zero

\* C5: Wall::new never yields a wall with p1 = p2, nor one whose normal is
\* the zero vector.
C5_NewRejectsDegenerate ==
    \A i \in Inputs :
        /\ walls[i].p1 # walls[i].p2
        /\ walls[i].forward # Vector2(Zero, Zero)

\* C6: the normal of every segment stored in the tree is the one Wall::new
\* derives from that segment's own endpoints.
C6_NormalFromOwnEndpoints ==
    \A n \in Nodes :
        nodes[n].segment.forward
            = Wall_new(nodes[n].segment.p1, nodes[n].segment.p2).forward

\* An upper bound on the calls of tree_create still to come: a call on n
\* walls makes at most 2^(n+1) - 1 calls, itself included.
RECURSIVE Rank(_)
Rank(calls) ==
    IF calls = <<>> THEN 0 ELSE 2^(Len(Head(calls).walls) + 1) - 1 + Rank(Tail(calls))

\* C7: the build terminates.  While it runs a call is pending and can be
\* made, every call lowers Rank (a natural number), so no wall list is split
\* again without progress, and the build has returned exactly when no call
\* is pending.
C7_BuildTerminates ==
    /\ [](pc = "build" =>
            /\ work # <<>>
            /\ Head(work).walls # <<>> => Len(nodes) < MaxNodes)
    /\ [][pc = "build" => (Rank(work') < Rank(work) /\ (pc' = "built" <=> work' = <<>>))]_vars

\* A returned build in which a proper wall on the line of the first wall
\* became the pivot of a later call, and that call tested a fragment the
\* first call had cut off at this very line.
C7_Witness ==
    /\ pc = "built"
    /\ \E n \in Nodes \ {1} :
          /\ nodes[n].segment.p1 # nodes[n].segment.p2
          /\ nodes[1].segment.p1 # nodes[1].segment.p2
          /\ Orient(nodes[1].segment.p1, nodes[1].segment.p2, nodes[n].segment.p1) = Zero
          /\ Orient(nodes[1].segment.p1, nodes[1].segment.p2, nodes[n].segment.p2) = Zero
          /\ \E k \in Subtree(nodes[n].front) \cup Subtree(nodes[n].behind) :
                /\ Cardinality(Fragments(nodes[k].segment.orig)) >= 2
                /\ Orient(nodes[1].segment.p1, nodes[1].segment.p2, nodes[k].segment.p1)
                     # Orient(nodes[1].segment.p1, nodes[1].segment.p2, nodes[k].segment.p2)

\* C8: at every node, when the viewer is not in front of the node's segment
\* the front subtree comes before the node and the back subtree after it;
\* when the viewer is in front, the back subtree comes before and the front
\* subtree after.
C8_OrderFollowsViewerSide ==
    rendered =>
        \A n \in Nodes :
            LET viewerInFront == SideOf(nodes[n].segment, camera) = 1
                before == IF viewerInFront THEN nodes[n].behind ELSE nodes[n].front
                after == IF viewerInFront THEN nodes[n].front ELSE nodes[n].behind
            IN  /\ \A m \in Subtree(before) : Pos(m) < Pos(n)
                /\ \A m \in Subtree(after) : Pos(n) < Pos(m)
                /\ out[Pos(n)] = nodes[n].segment

\* A render in which the viewer is in front of one node with two children
\* and not in front of another.
C8_Witness ==
    /\ rendered
    /\ \E n, k \in Nodes :
          /\ nodes[n].front # 0
          /\ nodes[n].behind # 0
          /\ SideOf(nodes[n].segment, camera) = 1
          /\ nodes[k].front # 0
          /\ nodes[k].behind # 0
          /\ SideOf(nodes[k].segment, camera) # 1

C10_TwoCrossingWallsThreeNodes ==
    (pc = "built" /\ Len(walls) = 2 /\ CrossEachOther(walls[1], walls[2])) =>
        /\ Len(nodes) = 3
        /\ nodes[1].segment = walls[1]
        /\ nodes[1].front # 0
        /\ nodes[1].behind # 0
        /\ Subtree(nodes[1].front) \cup Subtree(nodes[1].behind) = Fragments(2)
        /\ Chain(Fragments(2), walls[2].p1, walls[2].p2)
        /\ \A n \in Fragments(2) :
              \E p \in {nodes[n].segment.p1, nodes[n].segment.p2} :
                  /\ Orient(walls[1].p1, walls[1].p2, p) = Zero
                  /\ p \notin {walls[2].p1, walls[2].p2}

====
